---- MODULE Spec2Model ----
(***************************************************************************)
(* Model of the segment-display driver (src/src/lib.rs): a 4-digit         *)
(* 7-segment display behind a shift-register chain.  The controller owns a *)
(* 4-byte back buffer and a rotating digit cursor; every refresh call      *)
(* shifts out one digit.  The transport (SPI), the latch pin and the delay *)
(* are recording fakes: every call made on them is appended to io together *)
(* with the value the fake returned.                                       *)
(*                                                                         *)
(* Characters are Unicode scalar values (naturals), strings are sequences  *)
(* of characters, bytes are naturals below 256.                            *)
(***************************************************************************)
EXTENDS Integers, Sequences, FiniteSets

VARIABLES
    back_buffer,    \* SegmentDisplay.back_buffer: [u8; 4], indexed 0..3
    current_digit,  \* SegmentDisplay.current_digit: usize
    spi,            \* SegmentDisplay.spi: the transport handed to new
    latch_pin,      \* SegmentDisplay.latch_pin: the pin handed to new
    alive,          \* FALSE once release(self) has consumed the controller
    last_op,        \* name of the most recent call
    last_arg,       \* argument of the most recent call (<< >> when none)
    io,             \* collaborator calls made by the most recent call, in order
    result,         \* value returned by the most recent call
    latch_level,    \* level of the latch pin: its last successful set_low/set_high
    nrefresh,       \* number of refresh / refresh_with_delay calls so far
    returned,       \* the pair release() gave back (<< >> before release)
    last_refresh,   \* the step the most recent refresh call failed at ("ok" when
                    \* none failed, "none" before the first refresh call)
    may_fail,       \* TRUE while the collaborators can still return errors
    recent          \* the digit positions whose payload the transport took in the
                    \* last (up to 4) refresh calls made since the collaborators
                    \* stopped failing (-1 for a call without a successful write);
                    \* << >> while they can still fail

vars == <<back_buffer, current_digit, spi, latch_pin, alive, last_op, last_arg,
          io, result, latch_level, nrefresh, returned, last_refresh, may_fail, recent>>

-----------------------------------------------------------------------------
(* Bounds of the model *)

\* refresh calls per behaviour (5 = one full cycle and the repeat)
MaxRefresh == 5
\* longest string handed to write_str (one more than the display holds)
MaxStrLen == 5
\* largest number handed to write_number in SpecNumber and SpecEncoder
MaxNum == 10020
\* largest character (scalar value) handed to the encoder in SpecEncoder
MaxChar == 400

\* characters handed to write_chars: '7', '-'
CharInputs == {55, 45}
\* characters of the strings handed to write_str: 'h', U+00E9
StrChars == {104, 233}
StrInputs == UNION {[1..k -> StrChars] : k \in 0..MaxStrLen}
\* numbers handed to write_number in Spec
NumInputs == {0, 7, 42, 1234, 9999, 10000}

\* the collaborators handed to new
SpiHandles == {"spi1"}
PinHandles == {"pb4"}
\* what the fakes return: OK or an implementation-defined error value
OK == "ok"
SpiErrors == {"spi_err_a", "spi_err_b"}
PinErrors == {"pin_err_a", "pin_err_b"}
SpiRets == {OK} \cup SpiErrors
PinRets == {OK} \cup PinErrors
\* what set_low, write and set_high return in one refresh call; a collaborator
\* that is not reached (an earlier one failed) is scripted OK
Scripts ==
    {<<l, w, h>> : l \in PinRets, w \in SpiRets, h \in PinRets} \ 
    {<<l, w, h>> \in PinRets \X SpiRets \X PinRets :
        \/ l # OK /\ (w # OK \/ h # OK)
        \/ w # OK /\ h # OK}

-----------------------------------------------------------------------------
(* Integer helpers: u8 / usize arithmetic *)

RECURSIVE BitAnd(_, _)
BitAnd(a, b) ==
    IF a = 0 \/ b = 0 THEN 0
    ELSE (a % 2) * (b % 2) + 2 * BitAnd(a \div 2, b \div 2)

\* x << n on u8 (the shift amount is taken modulo the width, bits above 7 are lost)
Shl8(x, n) == (x * 2^(n % 8)) % 256

-----------------------------------------------------------------------------
(* Encoder: the tables and char_to_segment_code *)

NUMERALS == <<
    \b11000000,    \* 0
    \b11111001,    \* 1
    \b10100100,    \* 2
    \b10110000,    \* 3
    \b10011001,    \* 4
    \b10010010,    \* 5
    \b10000010,    \* 6
    \b11111000,    \* 7
    \b10000000,    \* 8
    \b10011000     \* 9
>>

LETTERS == <<
    \b10001000,    \* A
    \b10000011,    \* B
    \b11000110,    \* C
    \b10100001,    \* D
    \b10000110,    \* E
    \b10001110,    \* F
    \b11000010,    \* G
    \b10001001,    \* H
    \b11001111,    \* I
    \b11100001,    \* J
    \b10001010,    \* K
    \b11000111,    \* L
    \b11101010,    \* M
    \b11001000,    \* N
    \b11000000,    \* O
    \b10001100,    \* P
    \b10010100,    \* Q
    \b11001100,    \* R
    \b10010010,    \* S
    \b10000111,    \* T
    \b11000001,    \* U
    \b11000001,    \* V
    \b11010101,    \* W
    \b10001001,    \* X
    \b10010001,    \* Y
    \b10100100     \* Z
>>

\* what a slot reads when the call that wrote it would have panicked (an index
\* out of the table's bounds): no byte
Panic == -1

\* NUMERALS[i], LETTERS[i] with the source's 0-based index; indexing is
\* bounds-checked
Numeral(i) == IF i \in 0..(Len(NUMERALS) - 1) THEN NUMERALS[i + 1] ELSE Panic
Letter(i) == IF i \in 0..(Len(LETTERS) - 1) THEN LETTERS[i + 1] ELSE Panic

is_ascii_digit(c) == c \in 48..57
is_ascii_alphabetic(c) == c \in 65..90 \/ c \in 97..122

\* idx of the digit branch: (c as u8) - ('0' as u8)
numeral_idx(c) ==
    LET cb == c % 256
    IN cb - 48

\* idx of the letter branch: ((c as u8) & !0x20) - ('A' as u8)
letter_idx(c) ==
    LET cb == BitAnd(c % 256, 255 - 32)
    IN cb - 65

\* mutant: the digit branch reads the letter table
char_to_segment_code_wrong_table(c) ==
    IF is_ascii_digit(c) THEN
        Letter(numeral_idx(c))
    ELSE IF is_ascii_alphabetic(c) THEN
        Letter(letter_idx(c))
    ELSE
        CASE c = 32 -> \b11111111
          [] c = 45 -> \b10111111
          [] c = 95 -> \b11110111
          [] OTHER  -> \b11111111

\* mutant: the letter is not converted to upper case before the lookup
char_to_segment_code_no_upper(c) ==
    IF is_ascii_digit(c) THEN
        Numeral(numeral_idx(c))
    ELSE IF is_ascii_alphabetic(c) THEN
        Letter((c % 256) - 65)
    ELSE
        CASE c = 32 -> \b11111111
          [] c = 45 -> \b10111111
          [] c = 95 -> \b11110111
          [] OTHER  -> \b11111111

\* mutant: the patterns of '-' and '_' are exchanged
char_to_segment_code_symbols_swapped(c) ==
    IF is_ascii_digit(c) THEN
        Numeral(numeral_idx(c))
    ELSE IF is_ascii_alphabetic(c) THEN
        Letter(letter_idx(c))
    ELSE
        CASE c = 32 -> \b11111111
          [] c = 45 -> \b11110111
          [] c = 95 -> \b10111111
          [] OTHER  -> \b11111111

char_to_segment_code(c) ==
    IF is_ascii_digit(c) THEN
        Numeral(numeral_idx(c))
    ELSE IF is_ascii_alphabetic(c) THEN
        Letter(letter_idx(c))
    ELSE
        CASE c = 32 -> \b11111111
          [] c = 45 -> \b10111111
          [] c = 95 -> \b11110111
          [] OTHER  -> \b11111111

-----------------------------------------------------------------------------
(* Recording fakes of the collaborators *)

\* one call on a collaborator: its name, the bytes (or microseconds) passed,
\* what the fake returned, and current_digit at the moment of the call
Ev(op, data, ret, cur) == [op |-> op, data |-> data, ret |-> ret, cur |-> cur]

\* the latch pin's level after the calls in evs: a successful set_low / set_high
\* drives the pin, a failed one leaves it as it was
RECURSIVE PinLevelAfter(_, _)
PinLevelAfter(level, evs) ==
    IF evs = << >> THEN level
    ELSE LET e == Head(evs)
             l == IF e.ret = OK /\ e.op = "set_low" THEN "low"
                  ELSE IF e.ret = OK /\ e.op = "set_high" THEN "high"
                  ELSE level
         IN PinLevelAfter(l, Tail(evs))

\* the step the calls in evs failed at: the name of the first call that returned
\* an error, "ok" when none did
Stage(evs) ==
    IF \A i \in DOMAIN evs : evs[i].ret = OK THEN "ok"
    ELSE LET f == CHOOSE i \in DOMAIN evs :
                    evs[i].ret # OK /\ \A j \in 1..(i - 1) : evs[j].ret = OK
         IN evs[f].op

\* recent after a refresh call entered with cursor cur that made the calls evs
RecentAfter(rec, mf, evs, cur) ==
    IF mf THEN << >>
    ELSE LET p == IF \E i \in DOMAIN evs : evs[i].op = "write" /\ evs[i].ret = OK
                  THEN cur ELSE -1
             s == Append(rec, p)
         IN IF Len(s) > 4 THEN Tail(s) ELSE s

\* Result<(), Error<SpiError, PinError>> and the unit return of the write_* calls
ResOk == [tag |-> "Ok", err |-> "none"]
ErrorSpi(e) == [tag |-> "Spi", err |-> e]
ErrorPin(e) == [tag |-> "Pin", err |-> e]
Unit == [tag |-> "Unit", err |-> "none"]

-----------------------------------------------------------------------------
(* Display controller: pure parts *)

\* mutant: the two payload bytes in the wrong order
segments_and_select_swapped(bb, cur) == <<Shl8(1, 4 - 1 - cur), bb[cur]>>

\* mutant: the selector shifted by 4 - current_digit (the "- 1" forgotten)
segments_and_select_off_by_one(bb, cur) == <<bb[cur], Shl8(1, 4 - cur)>>

\* [back_buffer[current_digit], 1 << (4 - 1 - current_digit)]
segments_and_select(bb, cur) == <<bb[cur], Shl8(1, 4 - 1 - cur)>>

\* mutant: the wrap mask is 0b01, the cursor alternates between 0 and 1
next_digit_mask1(cur) == BitAnd(cur + 1, \b01)

\* self.current_digit = (self.current_digit + 1) & 0b11
next_digit(cur) == BitAnd(cur + 1, \b11)

\* mutant: the cursor advances after the I/O, so a failed call leaves it in place
refresh_call_advance_last(bb, cur, lowRet, writeRet, highRet) ==
    LET payload == segments_and_select(bb, cur)
        cur1 == next_digit(cur)
        low == Ev("set_low", << >>, lowRet, cur)
        wr == Ev("write", payload, writeRet, cur)
        high == Ev("set_high", << >>, highRet, cur)
    IN IF lowRet # OK THEN
           [current_digit |-> cur, io |-> <<low>>, result |-> ErrorPin(lowRet)]
       ELSE IF writeRet # OK THEN
           [current_digit |-> cur, io |-> <<low, wr>>, result |-> ErrorSpi(writeRet)]
       ELSE IF highRet # OK THEN
           [current_digit |-> cur, io |-> <<low, wr, high>>, result |-> ErrorPin(highRet)]
       ELSE
           [current_digit |-> cur1, io |-> <<low, wr, high>>, result |-> ResOk]

\* mutant: set_high is never called, the latch is left low
refresh_call_no_latch(bb, cur, lowRet, writeRet, highRet) ==
    LET payload == segments_and_select(bb, cur)
        cur1 == next_digit(cur)
        low == Ev("set_low", << >>, lowRet, cur1)
        wr == Ev("write", payload, writeRet, cur1)
    IN IF lowRet # OK THEN
           [current_digit |-> cur1, io |-> <<low>>, result |-> ErrorPin(lowRet)]
       ELSE IF writeRet # OK THEN
           [current_digit |-> cur1, io |-> <<low, wr>>, result |-> ErrorSpi(writeRet)]
       ELSE
           [current_digit |-> cur1, io |-> <<low, wr>>, result |-> ResOk]

\* mutant: a failed write is followed by a compensating set_high before the error
\* is returned
refresh_call_latch_after_error(bb, cur, lowRet, writeRet, highRet) ==
    LET payload == segments_and_select(bb, cur)
        cur1 == next_digit(cur)
        low == Ev("set_low", << >>, lowRet, cur1)
        wr == Ev("write", payload, writeRet, cur1)
        high == Ev("set_high", << >>, highRet, cur1)
    IN IF lowRet # OK THEN
           [current_digit |-> cur1, io |-> <<low>>, result |-> ErrorPin(lowRet)]
       ELSE IF writeRet # OK THEN
           [current_digit |-> cur1, io |-> <<low, wr, high>>, result |-> ErrorSpi(writeRet)]
       ELSE IF highRet # OK THEN
           [current_digit |-> cur1, io |-> <<low, wr, high>>, result |-> ErrorPin(highRet)]
       ELSE
           [current_digit |-> cur1, io |-> <<low, wr, high>>, result |-> ResOk]

\* mutant: the result of set_high is dropped (let _ = ...), the call returns Ok
refresh_call_swallow_high(bb, cur, lowRet, writeRet, highRet) ==
    LET payload == segments_and_select(bb, cur)
        cur1 == next_digit(cur)
        low == Ev("set_low", << >>, lowRet, cur1)
        wr == Ev("write", payload, writeRet, cur1)
        high == Ev("set_high", << >>, highRet, cur1)
    IN IF lowRet # OK THEN
           [current_digit |-> cur1, io |-> <<low>>, result |-> ErrorPin(lowRet)]
       ELSE IF writeRet # OK THEN
           [current_digit |-> cur1, io |-> <<low, wr>>, result |-> ErrorSpi(writeRet)]
       ELSE
           [current_digit |-> cur1, io |-> <<low, wr, high>>, result |-> ResOk]

\* refresh: the new cursor, the collaborator calls made and the value returned,
\* given what set_low, write and set_high return when they are called
refresh_call(bb, cur, lowRet, writeRet, highRet) ==
    LET payload == segments_and_select(bb, cur)
        cur1 == next_digit(cur)
        low == Ev("set_low", << >>, lowRet, cur1)
        wr == Ev("write", payload, writeRet, cur1)
        high == Ev("set_high", << >>, highRet, cur1)
    IN IF lowRet # OK THEN
           [current_digit |-> cur1, io |-> <<low>>, result |-> ErrorPin(lowRet)]
       ELSE IF writeRet # OK THEN
           [current_digit |-> cur1, io |-> <<low, wr>>, result |-> ErrorSpi(writeRet)]
       ELSE IF highRet # OK THEN
           [current_digit |-> cur1, io |-> <<low, wr, high>>, result |-> ErrorPin(highRet)]
       ELSE
           [current_digit |-> cur1, io |-> <<low, wr, high>>, result |-> ResOk]

\* mutant: the delay is made before the transport write instead of after it
refresh_with_delay_call_delay_first(bb, cur, lowRet, writeRet, highRet) ==
    LET payload == segments_and_select(bb, cur)
        cur1 == next_digit(cur)
        low == Ev("set_low", << >>, lowRet, cur1)
        wr == Ev("write", payload, writeRet, cur1)
        dly == Ev("delay_us", <<100>>, OK, cur1)
        high == Ev("set_high", << >>, highRet, cur1)
    IN IF lowRet # OK THEN
           [current_digit |-> cur1, io |-> <<low>>, result |-> ErrorPin(lowRet)]
       ELSE IF writeRet # OK THEN
           [current_digit |-> cur1, io |-> <<low, dly, wr>>, result |-> ErrorSpi(writeRet)]
       ELSE IF highRet # OK THEN
           [current_digit |-> cur1, io |-> <<low, dly, wr, high>>, result |-> ErrorPin(highRet)]
       ELSE
           [current_digit |-> cur1, io |-> <<low, dly, wr, high>>, result |-> ResOk]

\* refresh_with_delay: as refresh_call, with delay.delay_us(100) after the write
refresh_with_delay_call(bb, cur, lowRet, writeRet, highRet) ==
    LET payload == segments_and_select(bb, cur)
        cur1 == next_digit(cur)
        low == Ev("set_low", << >>, lowRet, cur1)
        wr == Ev("write", payload, writeRet, cur1)
        dly == Ev("delay_us", <<100>>, OK, cur1)
        high == Ev("set_high", << >>, highRet, cur1)
    IN IF lowRet # OK THEN
           [current_digit |-> cur1, io |-> <<low>>, result |-> ErrorPin(lowRet)]
       ELSE IF writeRet # OK THEN
           [current_digit |-> cur1, io |-> <<low, wr>>, result |-> ErrorSpi(writeRet)]
       ELSE IF highRet # OK THEN
           [current_digit |-> cur1, io |-> <<low, wr, dly, high>>, result |-> ErrorPin(highRet)]
       ELSE
           [current_digit |-> cur1, io |-> <<low, wr, dly, high>>, result |-> ResOk]

\* mutant: the characters land right to left
write_chars_buf_reversed(bb, buf) == [i \in 0..3 |-> char_to_segment_code(buf[3 - i])]

\* write_chars: back_buffer[i] = char_to_segment_code(buf[i]) for i = 0..3
write_chars_buf(bb, buf) == [i \in 0..3 |-> char_to_segment_code(buf[i])]

\* mutant: the buffer is not cleared first, the trailing slots keep their content
write_str_buf_no_clear(bb, s) ==
    LET taken == IF Len(s) < 4 THEN Len(s) ELSE 4
    IN [i \in 0..3 |-> IF i < taken THEN char_to_segment_code(s[i + 1]) ELSE bb[i]]

\* mutant: the buffer is cleared to 0 (all segments on) instead of !0
write_str_buf_clear_zero(bb, s) ==
    LET taken == IF Len(s) < 4 THEN Len(s) ELSE 4
    IN [i \in 0..3 |-> IF i < taken THEN char_to_segment_code(s[i + 1]) ELSE 0]

\* write_str: every slot set to !0, then the first 4 chars of s encoded in place
write_str_buf(bb, s) ==
    LET cleared == [i \in 0..3 |-> 255]
        taken == IF Len(s) < 4 THEN Len(s) ELSE 4
    IN [i \in 0..3 |-> IF i < taken THEN char_to_segment_code(s[i + 1]) ELSE cleared[i]]

\* the divisors the loop of write_number iterates over
DIVS == <<1000, 100, 10>>

\* the loop of write_number from iteration i on: the buffer and what is left of
\* num, with the table index (idx) and the value of num (rem) of every iteration
RECURSIVE write_number_loop(_, _, _)
write_number_loop(bb, num, i) ==
    IF i >= Len(DIVS) THEN [buf |-> bb, num |-> num, idx |-> << >>, rem |-> << >>]
    ELSE LET div == DIVS[i + 1]
             digit == IF num >= i THEN num \div div ELSE 0
             num1 == IF num >= i THEN num - div * digit ELSE num
             rest == write_number_loop([bb EXCEPT ![i] = Numeral(digit)], num1, i + 1)
         IN [rest EXCEPT !.idx = <<digit>> \o @, !.rem = <<num1>> \o @]

\* mutant: a number above 9999 wraps (its low four digits) instead of being capped
write_number_buf_wrap(bb, n) ==
    LET num == n % 10000
        r == write_number_loop(bb, num, 0)
    IN [r.buf EXCEPT ![3] = Numeral(r.num)]

\* mutant: num is not capped at 9999
write_number_run_no_clamp(bb, n) == write_number_loop(bb, n, 0)

\* write_number up to the end of the loop: num capped at 9999, then the loop
write_number_run(bb, n) ==
    LET num == IF n > 9999 THEN 9999 ELSE n
    IN write_number_loop(bb, num, 0)

\* write_number: num capped at 9999, the loop, then the units digit
write_number_buf(bb, n) ==
    LET r == write_number_run(bb, n)
    IN [r.buf EXCEPT ![3] = Numeral(r.num)]

-----------------------------------------------------------------------------
(* Display controller: operations *)

new(s, p) ==
    /\ back_buffer = [i \in 0..3 |-> 255]
    /\ spi = s
    /\ latch_pin = p
    /\ current_digit = 0
    /\ alive = TRUE
    /\ last_op = "new"
    /\ last_arg = << >>
    /\ io = << >>
    /\ result = Unit
    /\ latch_level = "none"
    /\ nrefresh = 0
    /\ returned = << >>
    /\ last_refresh = "none"
    /\ may_fail = TRUE
    /\ recent = << >>

\* mutant: the two collaborators are handed back in the wrong order
release_swapped ==
    /\ alive
    /\ alive' = FALSE
    /\ returned' = <<latch_pin, spi>>
    /\ last_op' = "release"
    /\ last_arg' = << >>
    /\ io' = << >>
    /\ result' = Unit
    /\ UNCHANGED <<back_buffer, current_digit, spi, latch_pin, latch_level, nrefresh,
                   last_refresh, may_fail, recent>>

release ==
    /\ alive
    /\ alive' = FALSE
    /\ returned' = <<spi, latch_pin>>
    /\ last_op' = "release"
    /\ last_arg' = << >>
    /\ io' = << >>
    /\ result' = Unit
    /\ UNCHANGED <<back_buffer, current_digit, spi, latch_pin, latch_level, nrefresh,
                   last_refresh, may_fail, recent>>

refresh ==
    /\ alive
    /\ nrefresh < MaxRefresh
    /\ \E sc \in Scripts :
         LET r == refresh_call(back_buffer, current_digit, sc[1], sc[2], sc[3])
         IN /\ current_digit' = r.current_digit
            /\ io' = r.io
            /\ result' = r.result
            /\ latch_level' = PinLevelAfter(latch_level, r.io)
            /\ last_refresh' = Stage(r.io)
            /\ recent' = RecentAfter(recent, may_fail, r.io, current_digit)
    /\ last_op' = "refresh"
    /\ last_arg' = << >>
    /\ nrefresh' = nrefresh + 1
    /\ UNCHANGED <<back_buffer, spi, latch_pin, alive, returned, may_fail>>

refresh_with_delay ==
    /\ alive
    /\ nrefresh < MaxRefresh
    /\ \E sc \in Scripts :
         LET r == refresh_with_delay_call(back_buffer, current_digit,
                                          sc[1], sc[2], sc[3])
         IN /\ current_digit' = r.current_digit
            /\ io' = r.io
            /\ result' = r.result
            /\ latch_level' = PinLevelAfter(latch_level, r.io)
            /\ last_refresh' = Stage(r.io)
            /\ recent' = RecentAfter(recent, may_fail, r.io, current_digit)
    /\ last_op' = "refresh_with_delay"
    /\ last_arg' = << >>
    /\ nrefresh' = nrefresh + 1
    /\ UNCHANGED <<back_buffer, spi, latch_pin, alive, returned, may_fail>>

write_chars(buf) ==
    /\ alive
    /\ back_buffer' = write_chars_buf(back_buffer, buf)
    /\ last_op' = "write_chars"
    /\ last_arg' = buf
    /\ io' = << >>
    /\ result' = Unit
    /\ UNCHANGED <<current_digit, spi, latch_pin, alive, latch_level, nrefresh, returned,
                   last_refresh, may_fail, recent>>

\* mutant: writing a new text restarts the digit cycle at the leftmost digit
write_str_reset_cursor(s) ==
    /\ alive
    /\ back_buffer' = write_str_buf(back_buffer, s)
    /\ current_digit' = 0
    /\ last_op' = "write_str"
    /\ last_arg' = s
    /\ io' = << >>
    /\ result' = Unit
    /\ UNCHANGED <<spi, latch_pin, alive, latch_level, nrefresh, returned,
                   last_refresh, may_fail, recent>>

write_str(s) ==
    /\ alive
    /\ back_buffer' = write_str_buf(back_buffer, s)
    /\ last_op' = "write_str"
    /\ last_arg' = s
    /\ io' = << >>
    /\ result' = Unit
    /\ UNCHANGED <<current_digit, spi, latch_pin, alive, latch_level, nrefresh, returned,
                   last_refresh, may_fail, recent>>

write_number(n) ==
    /\ alive
    /\ back_buffer' = write_number_buf(back_buffer, n)
    /\ last_op' = "write_number"
    /\ last_arg' = n
    /\ io' = << >>
    /\ result' = Unit
    /\ UNCHANGED <<current_digit, spi, latch_pin, alive, latch_level, nrefresh, returned,
                   last_refresh, may_fail, recent>>

WriteChars == \E buf \in [0..3 -> CharInputs] : write_chars(buf)
WriteStr == \E s \in StrInputs : write_str(s)
WriteNumber == \E n \in NumInputs : write_number(n)

Init == \E s \in SpiHandles, p \in PinHandles : new(s, p)

Next ==
    \/ refresh
    \/ refresh_with_delay
    \/ WriteChars
    \/ WriteStr
    \/ WriteNumber
    \/ release

Spec == Init /\ [][Next]_vars

-----------------------------------------------------------------------------
(* SpecNumber: write_number on every n in 0..MaxNum, once per behaviour, from *)
(* the fresh buffer and from every buffer a write_str leaves behind           *)

WriteStrFirst == last_op = "new" /\ WriteStr
WriteNumberOnce == last_op # "write_number" /\ \E n \in 0..MaxNum : write_number(n)

NextNumber ==
    \/ WriteStrFirst
    \/ WriteNumberOnce

SpecNumber == Init /\ [][NextNumber]_vars

-----------------------------------------------------------------------------
(* SpecEncoder: the encoder on every character in 0..MaxChar (through a        *)
(* one-character write_str, from the fresh buffer and after another character) *)
(* and write_number on every n in 0..MaxNum from the fresh buffer              *)

EncodeChar == last_op # "write_number" /\ \E c \in 0..MaxChar : write_str(<<c>>)
WriteNumberFresh == last_op = "new" /\ \E n \in 0..MaxNum : write_number(n)

NextEncoder ==
    \/ EncodeChar
    \/ WriteNumberFresh

SpecEncoder == Init /\ [][NextEncoder]_vars

-----------------------------------------------------------------------------
(* SpecRelease: controllers built from each of several transports and pins,    *)
(* refreshed and written to, then released                                     *)

ReleaseSpiHandles == {"spi1", "spi2"}
ReleasePinHandles == {"pb4", "pb5"}

InitRelease == \E s \in ReleaseSpiHandles, p \in ReleasePinHandles : new(s, p)

NextRelease ==
    \/ refresh
    \/ refresh_with_delay
    \/ WriteNumber
    \/ release

SpecRelease == InitRelease /\ [][NextRelease]_vars

-----------------------------------------------------------------------------
(* SpecLive: the caller's loop around refresh, with write_str calls in         *)
(* between; the collaborators fail as they like until they stop failing for    *)
(* good.  A caller either unwraps the result of refresh, as the documented     *)
(* loop does, and then the program ends with the first Err (alive becomes      *)
(* FALSE and no call follows), or it takes the Err and calls again.            *)
(* nrefresh saturates at MaxRefresh.                                           *)

\* the strings written in SpecLive: "h", "hhhh"
LiveStrs == {<<104>>, <<104, 104, 104, 104>>}
\* the collaborator results open to a refresh call
ScriptsNow == IF may_fail THEN Scripts ELSE {<<OK, OK, OK>>}

\* the collaborators return no error from now on (whether or not the program
\* still runs)
StopFailing ==
    /\ may_fail
    /\ may_fail' = FALSE
    /\ UNCHANGED <<back_buffer, current_digit, spi, latch_pin, alive, last_op, last_arg,
                   io, result, latch_level, nrefresh, returned, last_refresh, recent>>

refresh_live ==
    /\ alive
    /\ \E sc \in ScriptsNow :
         LET r == refresh_call(back_buffer, current_digit, sc[1], sc[2], sc[3])
         IN /\ current_digit' = r.current_digit
            /\ io' = r.io
            /\ result' = r.result
            /\ latch_level' = PinLevelAfter(latch_level, r.io)
            /\ last_refresh' = Stage(r.io)
            /\ recent' = RecentAfter(recent, may_fail, r.io, current_digit)
    /\ last_op' = "refresh"
    /\ last_arg' = << >>
    /\ nrefresh' = (IF nrefresh < MaxRefresh THEN nrefresh + 1 ELSE nrefresh)
    /\ UNCHANGED <<back_buffer, spi, latch_pin, alive, returned, may_fail>>

refresh_with_delay_live ==
    /\ alive
    /\ \E sc \in ScriptsNow :
         LET r == refresh_with_delay_call(back_buffer, current_digit,
                                          sc[1], sc[2], sc[3])
         IN /\ current_digit' = r.current_digit
            /\ io' = r.io
            /\ result' = r.result
            /\ latch_level' = PinLevelAfter(latch_level, r.io)
            /\ last_refresh' = Stage(r.io)
            /\ recent' = RecentAfter(recent, may_fail, r.io, current_digit)
    /\ last_op' = "refresh_with_delay"
    /\ last_arg' = << >>
    /\ nrefresh' = (IF nrefresh < MaxRefresh THEN nrefresh + 1 ELSE nrefresh)
    /\ UNCHANGED <<back_buffer, spi, latch_pin, alive, returned, may_fail>>

\* segment_display.refresh().unwrap() of the documented loop: the call of
\* refresh, and on Err the panic of unwrap, after which nothing is called
refresh_unwrap ==
    /\ alive
    /\ \E sc \in ScriptsNow :
         LET r == refresh_call(back_buffer, current_digit, sc[1], sc[2], sc[3])
         IN /\ current_digit' = r.current_digit
            /\ io' = r.io
            /\ result' = r.result
            /\ latch_level' = PinLevelAfter(latch_level, r.io)
            /\ last_refresh' = Stage(r.io)
            /\ recent' = RecentAfter(recent, may_fail, r.io, current_digit)
            /\ alive' = (r.result = ResOk)
    /\ last_op' = "refresh"
    /\ last_arg' = << >>
    /\ nrefresh' = (IF nrefresh < MaxRefresh THEN nrefresh + 1 ELSE nrefresh)
    /\ UNCHANGED <<back_buffer, spi, latch_pin, returned, may_fail>>

WriteStrLive == \E s \in LiveStrs : write_str(s)

NextLive ==
    \/ refresh_unwrap
    \/ refresh_live
    \/ refresh_with_delay_live
    \/ WriteStrLive
    \/ StopFailing

\* the documented loop never ends by itself: while the program has not
\* panicked, refresh is called again
SpecLive ==
    /\ Init
    /\ [][NextLive]_vars
    /\ WF_current_digit(refresh_unwrap)

-----------------------------------------------------------------------------
(* Properties *)

RefreshOps == {"refresh", "refresh_with_delay"}

\* the names of the collaborator calls in evs, in order
Ops(evs) == [i \in DOMAIN evs |-> evs[i].op]
\* the positions of the calls named op in evs
Calls(evs, op) == {i \in DOMAIN evs : evs[i].op = op}
\* the bits set in byte b
Bits(b) == {k \in 0..7 : (b \div 2^k) % 2 = 1}
Min(a, b) == IF a < b THEN a ELSE b

\* C1: a refresh call whose set_low succeeds issues exactly one transport write,
\* and its data is [back_buffer[c], 1 << (3 - c)] for the buffer and the cursor c
\* the call was entered with.
C1_RefreshPayload ==
    [][(/\ last_op' = "refresh"
        /\ io' # << >>
        /\ io'[1].op = "set_low"
        /\ io'[1].ret = OK)
       => /\ Cardinality(Calls(io', "write")) = 1
          /\ \A i \in Calls(io', "write") :
               io'[i].data = <<back_buffer[current_digit], 2^(3 - current_digit)>>]_vars

\* a refresh at the last position (cursor 3, selector 1) of a buffer whose last
\* slot is not blank, whose write failed
C1_Witness ==
    /\ last_op = "refresh"
    /\ current_digit = 0
    /\ back_buffer[3] # 255
    /\ Len(io) = 2
    /\ io[2].op = "write"
    /\ io[2].ret \in SpiErrors
    /\ io[2].data = <<back_buffer[3], 1>>

\* C2: from construction, the k-th refresh call uses the selector
\* 1 << (3 - ((k-1) mod 4)): 8, 4, 2, 1 and 8 again on the 5th call, whatever
\* write_* calls come in between.  (nrefresh counts refresh and
\* refresh_with_delay calls alike; the selector of a call is seen in its write,
\* and the cursor after k calls is the position call k+1 will select.)
C2_MaskCycle ==
    /\ current_digit = nrefresh % 4
    /\ \A i \in Calls(io, "write") :
         last_op \in RefreshOps =>
           /\ io[i].data[2] = 2^(3 - ((nrefresh - 1) % 4))
           /\ nrefresh \in 1..5 => io[i].data[2] = <<8, 4, 2, 1, 8>>[nrefresh]

\* the 5th refresh call, made after a write_* call changed the buffer, selects
\* digit 0 again
C2_Witness ==
    /\ last_op = "refresh"
    /\ nrefresh = 5
    /\ back_buffer # [i \in 0..3 |-> 255]
    /\ Calls(io, "write") # {}
    /\ \A i \in Calls(io, "write") : io[i].data[2] = 8

\* C3: every refresh / refresh_with_delay call advances the cursor by one modulo 4
\* whatever its outcome, and does so before its first collaborator call (each
\* call on a collaborator already sees the advanced cursor).
C3_CursorAdvance ==
    [][last_op' \in RefreshOps
       => /\ current_digit' = (current_digit + 1) % 4
          /\ \A i \in DOMAIN io' : io'[i].cur = (current_digit + 1) % 4]_vars

\* the second refresh call failed at the transport write and the cursor is at 2
C3_Witness ==
    /\ last_op = "refresh"
    /\ nrefresh = 2
    /\ result.tag = "Spi"
    /\ current_digit = 2

\* C4: a refresh call in which no collaborator fails makes exactly the calls
\* set_low, write, set_high, in that order; no refresh call makes any of the
\* three more than once.
C4_IoOrder ==
    last_op = "refresh" =>
        /\ (\A i \in DOMAIN io : io[i].ret = OK)
             => Ops(io) = <<"set_low", "write", "set_high">>
        /\ \A op \in {"set_low", "write", "set_high"} : Cardinality(Calls(io, op)) <= 1

\* a refresh call with three successful collaborator calls
C4_Witness ==
    /\ last_op = "refresh"
    /\ Len(io) = 3
    /\ \A i \in DOMAIN io : io[i].ret = OK

\* C5: in a refresh call a failed set_low is followed by no write and no set_high,
\* and a failed write by no set_high: the failing call is the last one made.
C5_ShortCircuit ==
    last_op = "refresh" =>
        /\ \A i \in DOMAIN io : io[i].ret # OK => i = Len(io)
        /\ \A i \in Calls(io, "set_low") :
             io[i].ret # OK => Calls(io, "write") = {} /\ Calls(io, "set_high") = {}
        /\ \A i \in Calls(io, "write") :
             io[i].ret # OK => Calls(io, "set_high") = {}

\* a refresh call whose transport write failed
C5_Witness ==
    /\ last_op = "refresh"
    /\ \E i \in Calls(io, "write") : io[i].ret \in SpiErrors

\* the first failed collaborator call in evs (0 when none failed)
FirstFailure(evs) ==
    IF \A i \in DOMAIN evs : evs[i].ret = OK THEN 0
    ELSE CHOOSE i \in DOMAIN evs :
           evs[i].ret # OK /\ \A j \in 1..(i - 1) : evs[j].ret = OK

\* C6: refresh returns Ok exactly when set_low, write and set_high were all made
\* and all succeeded; otherwise it returns the error value of the first failed
\* call, as Pin for set_low / set_high and as Spi for write.
C6_ResultFaithful ==
    last_op = "refresh" =>
        LET f == FirstFailure(io)
        IN /\ result.tag \in {"Ok", "Pin", "Spi"}
           /\ result = ResOk <=>
                (/\ \A op \in {"set_low", "write", "set_high"} : Calls(io, op) # {}
                 /\ f = 0)
           /\ f # 0 =>
                /\ result.err = io[f].ret
                /\ result.tag = (IF io[f].op = "write" THEN "Spi" ELSE "Pin")

\* a refresh call whose set_high failed with pin_err_b, returned as Pin(pin_err_b)
C6_Witness ==
    /\ last_op = "refresh"
    /\ Len(io) = 3
    /\ io[3].op = "set_high"
    /\ io[3].ret = "pin_err_b"
    /\ result = [tag |-> "Pin", err |-> "pin_err_b"]

\* C7: the cursor is always in 0..3 (so the shift amount 3 - cursor is never
\* negative), and every selector byte handed to the transport has exactly one
\* bit set, one of bits 0..3.
C7_OneHot ==
    /\ current_digit \in 0..3
    /\ 3 - current_digit >= 0
    /\ \A i \in Calls(io, "write") :
         /\ Len(io[i].data) = 2
         /\ Cardinality(Bits(io[i].data[2])) = 1
         /\ Bits(io[i].data[2]) \subseteq 0..3
         /\ io[i].data[2] \in {1, 2, 4, 8}

\* a refresh_with_delay call at the last position: shift amount 0, selector 1
C7_Witness ==
    /\ last_op = "refresh_with_delay"
    /\ current_digit = 0
    /\ \E i \in Calls(io, "write") : io[i].data[2] = 1

\* C8: after write_number(n) the slots hold the patterns of the thousands,
\* hundreds, tens and units digits of m = min(n, 9999), leading zeros included.
C8_WriteNumber ==
    last_op = "write_number" =>
        LET m == Min(last_arg, 9999)
        IN /\ back_buffer[0] = Numeral(m \div 1000)
           /\ back_buffer[1] = Numeral((m \div 100) % 10)
           /\ back_buffer[2] = Numeral((m \div 10) % 10)
           /\ back_buffer[3] = Numeral(m % 10)
           /\ DOMAIN back_buffer = 0..3

\* write_number(10007): above 9999, shown as 9999
C8_Witness ==
    /\ last_op = "write_number"
    /\ last_arg = 10007
    /\ back_buffer = [i \in 0..3 |-> Numeral(9)]

\* C9: after write_str(s) slot i holds the pattern of s[i] for i < min(len(s), 4)
\* and 0xFF for len(s) <= i < 4, whatever the buffer held before and whatever s
\* holds from index 4 on.
C9_WriteStr ==
    last_op = "write_str" =>
        /\ DOMAIN back_buffer = 0..3
        /\ \A i \in 0..3 :
             back_buffer[i] = (IF i < Min(Len(last_arg), 4)
                               THEN char_to_segment_code(last_arg[i + 1])
                               ELSE 255)

\* write_str("h") after some refresh calls: 'H', then three blank slots
C9_Witness ==
    /\ last_op = "write_str"
    /\ last_arg = <<104>>
    /\ nrefresh = 2
    /\ back_buffer = [i \in 0..3 |-> IF i = 0 THEN Letter(7) ELSE 255]

\* the 4-character string c0 c1 c2 c3 of a write_chars argument
AsStr(buf) == [j \in 1..4 |-> buf[j - 1]]

\* C10: after write_chars([c0, c1, c2, c3]) slot i holds the pattern of ci, and
\* the buffer is the one write_str leaves for the string c0c1c2c3 from the same
\* prior buffer.
C10_WriteChars ==
    [][last_op' = "write_chars"
       => /\ \A i \in 0..3 : back_buffer'[i] = char_to_segment_code(last_arg'[i])
          /\ back_buffer' = write_str_buf(back_buffer, AsStr(last_arg'))]_vars

\* write_chars(['7', '-', '-', '7'])
C10_Witness ==
    /\ last_op = "write_chars"
    /\ last_arg = [i \in 0..3 |-> <<55, 45, 45, 55>>[i + 1]]
    /\ back_buffer = [i \in 0..3 |-> <<Numeral(7), \b10111111, \b10111111, Numeral(7)>>[i + 1]]

NotDelay(e) == e.op # "delay_us"
\* what the call named op returned in evs (OK when it was not made)
RetOf(evs, op) ==
    IF Calls(evs, op) = {} THEN OK ELSE evs[CHOOSE i \in Calls(evs, op) : TRUE].ret

\* C11: refresh_with_delay updates the cursor, makes the latch and transport
\* calls (payload included) and returns as refresh does from the same state under
\* the same collaborator results; it differs by one delay_us(100), made right
\* after a successful write and before set_high, and none when set_low or the
\* write fails.
C11_DelayEquivalent ==
    [][last_op' = "refresh_with_delay"
       => LET r == refresh_call(back_buffer, current_digit, RetOf(io', "set_low"),
                                RetOf(io', "write"), RetOf(io', "set_high"))
              d == Calls(io', "delay_us")
              written == \E i \in Calls(io', "write") : io'[i].ret = OK
          IN /\ current_digit' = r.current_digit
             /\ result' = r.result
             /\ SelectSeq(io', NotDelay) = r.io
             /\ Cardinality(d) = (IF written THEN 1 ELSE 0)
             /\ \A i \in d :
                  /\ io'[i].data = <<100>>
                  /\ i > 1 /\ io'[i - 1].op = "write" /\ io'[i - 1].ret = OK
                  /\ i < Len(io') /\ io'[i + 1].op = "set_high"]_vars

\* a refresh_with_delay call that delayed and then failed at set_high
C11_Witness ==
    /\ last_op = "refresh_with_delay"
    /\ Ops(io) = <<"set_low", "write", "delay_us", "set_high">>
    /\ io[4].ret \in PinErrors
    /\ result = ErrorPin(io[4].ret)

\* the single character of the last write_str argument
EncodedChar == last_arg[1]
OneCharStr == last_op = "write_str" /\ Len(last_arg) = 1

\* C12: for the ASCII digits '0'..'9' the encoder returns the numeral table's
\* entry at index c - '0', the pattern write_number gives the digit c - '0'.
C12_DigitChars ==
    (OneCharStr /\ EncodedChar \in 48..57) =>
        /\ back_buffer[0] = NUMERALS[(EncodedChar - 48) + 1]
        /\ back_buffer[0] = write_number_buf(back_buffer, EncodedChar - 48)[3]

\* write_str("9")
C12_Witness ==
    /\ OneCharStr
    /\ EncodedChar = 57
    /\ back_buffer[0] = \b10011000

\* C13: for the 26 ASCII letters the encoder returns the letter table's entry at
\* index letter - 'A', for the lower-case letter as for the upper-case one.
C13_LetterCase ==
    /\ (OneCharStr /\ EncodedChar \in 65..90) =>
          back_buffer[0] = LETTERS[(EncodedChar - 65) + 1]
    /\ (OneCharStr /\ EncodedChar \in 97..122) =>
          /\ back_buffer[0] = LETTERS[(EncodedChar - 97) + 1]
          /\ back_buffer[0] = char_to_segment_code(EncodedChar - 32)

\* write_str("z"): the pattern of 'Z'
C13_Witness ==
    /\ OneCharStr
    /\ EncodedChar = 122
    /\ back_buffer[0] = \b10100100

\* C14: the encoder returns a pattern for every character; for one that is neither
\* an ASCII digit nor an ASCII letter it is 0xFF, except '-' (only bit 6 low) and
\* '_' (only bit 3 low); space gives 0xFF.
C14_Symbols ==
    OneCharStr =>
        /\ back_buffer[0] \in 0..255
        /\ EncodedChar = 32 => back_buffer[0] = 255
        /\ EncodedChar = 45 =>
             back_buffer[0] = 191 /\ Bits(back_buffer[0]) = (0..7) \ {6}
        /\ EncodedChar = 95 =>
             back_buffer[0] = 247 /\ Bits(back_buffer[0]) = (0..7) \ {3}
        /\ EncodedChar \notin ((48..57) \cup (65..90) \cup (97..122) \cup {45, 95}) =>
             back_buffer[0] = 255

\* write_str("_")
C14_Witness ==
    /\ OneCharStr
    /\ EncodedChar = 95
    /\ back_buffer[0] = \b11110111

\* C15: release hands back exactly the transport and the pin given to new (the
\* fields never change in between), whatever calls came before, and consumes the
\* controller: no call is made on it afterwards.
C15_ReleaseRoundTrip ==
    [][/\ alive
       /\ spi' = spi
       /\ latch_pin' = latch_pin
       /\ last_op' = "release" => (~alive' /\ returned' = <<spi, latch_pin>>)
       /\ last_op' # "release" => (alive' /\ returned' = << >>)]_vars

\* the controller built from spi2 and pb5, released after a failed refresh
C15_Witness ==
    /\ ~alive
    /\ last_op = "release"
    /\ last_refresh \in {"set_low", "write", "set_high"}
    /\ spi = "spi2" /\ latch_pin = "pb5"
    /\ returned = <<"spi2", "pb5">>

WriteOps == {"write_chars", "write_str", "write_number"}

\* C16: write_chars, write_str and write_number leave the cursor unchanged and
\* make no call on the transport or the latch pin; refresh and refresh_with_delay
\* leave the four buffer slots unchanged, whether they succeed or fail.
C16_Frame ==
    [][/\ last_op' \in WriteOps =>
            /\ current_digit' = current_digit
            /\ io' = << >>
            /\ latch_level' = latch_level
       /\ last_op' \in RefreshOps => back_buffer' = back_buffer]_vars

\* a write_str made after three refresh calls, the last of which left the latch
\* low: the cursor still points at the fourth digit
C16_Witness ==
    /\ last_op = "write_str"
    /\ nrefresh = 3
    /\ current_digit = 3
    /\ latch_level = "low"
    /\ back_buffer # [i \in 0..3 |-> 255]

\* every transport write of the last refresh call was made with the latch low,
\* after a successful set_low of that same call
WriteWhileLow ==
    last_op \in RefreshOps =>
        \A i \in Calls(io, "write") :
            PinLevelAfter("none", SubSeq(io, 1, i - 1)) = "low"

\* a refresh call that returned Ok left the latch high
OkLeavesHigh ==
    (last_op \in RefreshOps /\ result = ResOk) => latch_level = "high"

\* C17 as stated: a transport write is only made with the latch low after a
\* successful set_low of the same call; a refresh call that returns Ok leaves the
\* latch high; between calls the latch is low only when the most recent refresh
\* call failed at the transport write or at set_high.
C17_Original ==
    /\ WriteWhileLow
    /\ OkLeavesHigh
    /\ latch_level = "low" => last_refresh \in {"write", "set_high"}

\* C17, amended: as stated, except that between calls the latch is low only when
\* the most recent refresh call failed: at the transport write or at set_high,
\* or at set_low, which leaves the latch at the level an earlier call left it.
C17_StrobeLevel ==
    [][/\ WriteWhileLow'
       /\ OkLeavesHigh'
       /\ latch_level' = "low" => last_refresh' \in {"write", "set_high", "set_low"}
       /\ (last_op' \in RefreshOps /\ last_refresh' = "set_low")
            => latch_level' = latch_level]_vars

\* a refresh call that failed at set_low while an earlier failed call had left
\* the latch low
C17_Witness ==
    /\ last_op = "refresh"
    /\ last_refresh = "set_low"
    /\ Len(io) = 1
    /\ latch_level = "low"

\* the last call was a refresh call whose transport write of position c's
\* [pattern, selector] payload succeeded
TransmittedBy(op, evs, bb, c) ==
    /\ op \in RefreshOps
    /\ \E i \in Calls(evs, "write") :
         evs[i].ret = OK /\ evs[i].data = <<bb[c], 2^(3 - c)>>
Transmitted(c) == TransmittedBy(last_op, io, back_buffer, c)

\* refresh is called again and again: the caller never stops at an Err
KeepsCalling == []<><<last_op' \in RefreshOps>>_current_digit
\* the collaborators do not fail for ever
FailuresStop == <>[](~may_fail)

\* C18: with refresh called for ever and collaborators that do not fail for ever,
\* every digit position has its payload transmitted infinitely often; once the
\* failures have stopped every refresh call transmits the position the cursor
\* points at and succeeds, any 4 consecutive calls transmit each of the four
\* positions exactly once, and a call that returns Ok leaves the latch high
\* whatever level an earlier failed call left it at.
C18_NeverWedged ==
    /\ (KeepsCalling /\ FailuresStop) => \A c \in 0..3 : []<>Transmitted(c)
    /\ [](/\ Cardinality({recent[i] : i \in DOMAIN recent}) = Len(recent)
          /\ \A i \in DOMAIN recent : recent[i] \in 0..3
          /\ Len(recent) = 4 => {recent[i] : i \in DOMAIN recent} = 0..3)
    /\ [][(current_digit' # current_digit /\ ~may_fail) =>
            /\ TransmittedBy(last_op', io', back_buffer, current_digit)
            /\ current_digit' = (current_digit + 1) % 4
            /\ result' = ResOk
            /\ latch_level' = "high"]_current_digit
    /\ [][(current_digit' # current_digit /\ result' = ResOk) =>
            latch_level' = "high"]_current_digit

\* four refresh calls after the failures stopped with the cursor at 2 (so after
\* failed or successful calls): positions 2, 3, 0, 1, latch high
C18_Witness ==
    /\ ~may_fail
    /\ last_op \in RefreshOps
    /\ recent = <<2, 3, 0, 1>>
    /\ last_refresh = "ok"
    /\ latch_level = "high"

\* the encoder's range: blank, '-', '_', the numerals and the letters
ValidPatterns ==
    {\b11111111, \b10111111, \b11110111}
        \cup {NUMERALS[i] : i \in DOMAIN NUMERALS}
        \cup {LETTERS[i] : i \in DOMAIN LETTERS}

\* C19: the back buffer always has its 4 slots, each holding a pattern of the
\* encoder's range, and no other byte is handed to the transport as the segment
\* byte.
C19_ValidSlots ==
    /\ DOMAIN back_buffer = 0..3
    /\ \A i \in 0..3 : back_buffer[i] \in ValidPatterns
    /\ \A i \in Calls(io, "write") : io[i].data[1] \in ValidPatterns

\* a refresh call that shifted out the pattern of '-' written by write_chars
C19_Witness ==
    /\ last_op \in RefreshOps
    /\ \E i \in Calls(io, "write") : io[i].data[1] = \b10111111

\* C20: write_number and the encoder cannot fail.  In write_number the three
\* lookups of the loop and the final one use an index in 0..9 and num never goes
\* below zero; in the encoder the numeral index is in 0..9 and the letter index
\* in 0..25; no slot is left by a call that would have panicked.
C20_NoPanic ==
    /\ \A i \in 0..3 : back_buffer[i] # Panic
    /\ last_op = "write_number" =>
          LET r == write_number_run(back_buffer, last_arg)
          IN /\ Len(r.idx) = 3 /\ Len(r.rem) = 3
             /\ \A k \in 1..3 : r.idx[k] \in 0..9 /\ r.rem[k] >= 0
             /\ r.num \in 0..9
    /\ OneCharStr =>
          /\ is_ascii_digit(EncodedChar) => numeral_idx(EncodedChar) \in 0..9
          /\ is_ascii_alphabetic(EncodedChar) => letter_idx(EncodedChar) \in 0..25

\* write_number(1): the guard num >= i is false in the last iteration (1 < 2)
C20_Witness ==
    /\ last_op = "write_number"
    /\ last_arg = 1
    /\ back_buffer = [i \in 0..3 |-> IF i = 3 THEN Numeral(1) ELSE Numeral(0)]

====
